---------------------------- MODULE Spec2Model ----------------------------
(***************************************************************************)
(* A model of lib/sqlalchemy/databases/mysql.py: the MySQL dialect's type  *)
(* descriptors, its reflection of a table from DESCRIBE / SHOW CREATE      *)
(* TABLE output, and its DDL / SQL clause rendering.                       *)
(*                                                                         *)
(* Python strings are modelled as sequences of one-character strings, so   *)
(* that the regular expressions of the source can be run on them.          *)
(***************************************************************************)
EXTENDS Integers, Sequences, FiniteSets, TLC

VARIABLES
    table,     \* the schema.Table being reflected: its columns and kwargs
    dialect,   \* the MySQLDialect instance's attributes
    queries,   \* how many statements get_default_schema_name sent to the server
    call       \* the last call made: operation, arguments, result

vars == <<table, dialect, queries, call>>

(***************************************************************************)
(* Python values shared by all operations.                                 *)
(***************************************************************************)
\* Python's None in a slot that otherwise holds a string.
None == <<"None">>
\* An optional integer: <<>> is None, <<n>> is the integer n.
NoInt == <<>>
SomeInt(n) == <<n>>

\* The exceptions the modelled code can raise ("" is: no exception).
NoError == ""

(***************************************************************************)
(* Characters and the character classes of Python 2's re module.           *)
(***************************************************************************)
Digits == <<"0", "1", "2", "3", "4", "5", "6", "7", "8", "9">>
DigitChars == {Digits[i] : i \in 1..10}
LowerChars == {"a","b","c","d","e","f","g","h","i","j","k","l","m",
               "n","o","p","q","r","s","t","u","v","w","x","y","z"}
UpperChars == {"A","B","C","D","E","F","G","H","I","J","K","L","M",
               "N","O","P","Q","R","S","T","U","V","W","X","Y","Z"}
\* \w without re.UNICODE / re.LOCALE: [a-zA-Z0-9_]
WordChars == LowerChars \cup UpperChars \cup DigitChars \cup {"_"}
\* the vertical tab, \v or \x0b: the string holds that one character itself,
\* TLA+ having no escape for it
VerticalTab == ""
\* \s: [ \t\n\r\f\v]; the same set str.strip() removes.
SpaceChars == {" ", "\t", "\n", "\r", "\f", VerticalTab}
\* MySQL's identifier quote, the backquote (a TLA+ string cannot hold that
\* character, so it is the one character written as a name).
Backtick == "BACKQUOTE"

(***************************************************************************)
(* Binding a value.  TLC may evaluate a LET definition or an operator's    *)
(* argument again at each use, so a value that is costly to compute is     *)
(* bound as the one element of a set: in {F(x) : x \in {e}}, e is          *)
(* evaluated once.  A partial result (the match of a regular expression)   *)
(* is a set with no element or one, for the same reason.                   *)
(***************************************************************************)
\* the element of the set S of at most one element, or default if it has none
OrElse(S, default) ==
    CHOOSE x \in UNION {IF T = {} THEN {default} ELSE T : T \in {S}} : TRUE
\* the element of a set of exactly one element
The(S) == CHOOSE x \in S : TRUE

(***************************************************************************)
(* A matcher for the regular expressions of the source.  A pattern is a    *)
(* sequence of items: a literal string, a character class with a           *)
(* repetition {min,max} that is greedy or lazy, or a zero-width assertion. *)
(* Of the repetition counts that let the rest of the pattern match, a      *)
(* greedy item takes the largest and a lazy item the smallest, which is    *)
(* the match Python's backtracking finds.                                  *)
(***************************************************************************)
Min(S) == CHOOSE x \in S : \A y \in S : x <= y

\* a literal string: one set of accepted characters per position
Lits(s) == [kind |-> "str", chars |-> [i \in 1..Len(s) |-> {s[i]}],
            set |-> {}, neg |-> FALSE, min |-> 1, max |-> 1, lazy |-> FALSE]
Lit(c) == Lits(<<c>>)
\* a literal string under re.I: both cases of each letter
LitsIgnoreCase(pairs) ==
    [kind |-> "str", chars |-> [i \in 1..Len(pairs) |-> {pairs[i][1], pairs[i][2]}],
     set |-> {}, neg |-> FALSE, min |-> 1, max |-> 1, lazy |-> FALSE]
\* one character of a class (or of its complement), repeated min..max times;
\* max = -1 is: no upper limit
Rep(s, neg, lo, hi, lazy) ==
    [kind |-> "set", chars |-> <<>>, set |-> s, neg |-> neg,
     min |-> lo, max |-> hi, lazy |-> lazy]
Star(s) == Rep(s, FALSE, 0, -1, FALSE)
Opt(c) == Rep({c}, FALSE, 0, 1, FALSE)
\* . (any character but a newline), as .+ and as .+?
DotPlus == Rep({"\n"}, TRUE, 1, -1, FALSE)
DotPlusLazy == Rep({"\n"}, TRUE, 1, -1, TRUE)
\* the zero-width assertions \b and \Z
WordBoundaryItem ==
    [kind |-> "wb", chars |-> <<>>, set |-> {}, neg |-> FALSE,
     min |-> 0, max |-> 0, lazy |-> FALSE]
EndOfString ==
    [kind |-> "eos", chars |-> <<>>, set |-> {}, neg |-> FALSE,
     min |-> 0, max |-> 0, lazy |-> FALSE]

IsWordAt(text, p) == p >= 1 /\ p <= Len(text) /\ text[p] \in WordChars
\* \b holds at position p (before text[p]) when exactly one side is a word character
AtWordBoundary(text, p) == IsWordAt(text, p - 1) # IsWordAt(text, p)

Accepts(it, c) == IF it.neg THEN c \notin it.set ELSE c \in it.set

\* how many characters from position pos on the class of item it accepts in a row
RunLength(it, text, pos) ==
    OrElse({Min(stop) - pos :
               stop \in {{q \in pos..Len(text) : ~Accepts(it, text[q])}} \ {{}}},
           Len(text) - pos + 1)

\* the most repetitions of item it that can be tried at position pos
MostReps(it, text, pos) ==
    The({IF it.max = -1 \/ run < it.max THEN run ELSE it.max :
            run \in {RunLength(it, text, pos)}})

StrAt(it, text, pos) ==
    /\ pos + Len(it.chars) - 1 <= Len(text)
    /\ \A j \in 1..Len(it.chars) : text[pos + j - 1] \in it.chars[j]

\* of the matches in all, each starting with the end of the repeated item, the
\* one the item prefers: the shortest if it is lazy, the longest if greedy
Prefer(lazy, all) ==
    IF all = {} THEN {}
    ELSE {CHOOSE e \in all :
            \A f \in all : IF lazy THEN e[1] <= f[1] ELSE e[1] >= f[1]}

\* Match items i..Len(pat) of pat at position pos of text: no match ({}), or
\* the match, as the positions after each of the items i..Len(pat) (the
\* position of the next unread character).
RECURSIVE RxFrom(_, _, _, _)
RxFrom(pat, text, i, pos) ==
    IF i > Len(pat) THEN {<<>>}
    ELSE LET it == pat[i]
             Step(q) == {<<q>> \o e : e \in RxFrom(pat, text, i + 1, q)}
         IN  CASE it.kind = "str" ->
                    IF StrAt(it, text, pos) THEN Step(pos + Len(it.chars)) ELSE {}
               [] it.kind = "wb" ->
                    IF AtWordBoundary(text, pos) THEN Step(pos) ELSE {}
               [] it.kind = "eos" ->
                    IF pos = Len(text) + 1 THEN Step(pos) ELSE {}
               [] it.kind = "set" ->
                    UNION {Prefer(it.lazy, all) :
                             all \in {UNION {Step(pos + c) :
                                               c \in it.min..MostReps(it, text, pos)}}}

\* of the matches in all, the one of the alternative written first
FirstAlt(all) ==
    IF all = {} THEN {} ELSE {CHOOSE m \in all : \A n \in all : m.alt <= n.alt}

\* the match at position pos of the first of the alternatives alts that
\* matches there: {} or {[start, alt, ends]}
RxAt(alts, text, pos) ==
    UNION {FirstAlt(all) :
             all \in {UNION {{[start |-> pos, alt |-> a, ends |-> e] :
                                e \in RxFrom(alts[a], text, 1, pos)} :
                             a \in 1..Len(alts)}}}

\* of the matches in all, the leftmost
Leftmost(all) ==
    IF all = {} THEN {} ELSE {CHOOSE m \in all : \A n \in all : m.start <= n.start}

\* re.search from position pos on: the leftmost position where an alternative
\* matches, the alternatives in the order written
RxSearch(alts, text, pos) ==
    UNION {Leftmost(all) :
             all \in {UNION {RxAt(alts, text, p) : p \in pos..(Len(text) + 1)}}}

\* re.finditer: the match at each position that has one, and of these the
\* next one to be found from position pos on
RxAll(alts, text) == UNION {RxAt(alts, text, p) : p \in 1..(Len(text) + 1)}
RxNext(all, pos) == Leftmost({m \in all : m.start >= pos})

\* text[from .. to-1], Python's text[from:to] on 1-based positions
Slice(text, from, to) == SubSeq(text, from, to - 1)

\* The text item j of a match consumed (a group that is one item).
Group(text, m, j) ==
    Slice(text, IF j = 1 THEN m.start ELSE m.ends[j - 1], m.ends[j])
\* match.end(): the position after the whole match
MatchEnd(m) == IF m.ends = <<>> THEN m.start ELSE m.ends[Len(m.ends)]

(***************************************************************************)
(* str.strip(), int() and str() on these strings.                          *)
(***************************************************************************)
RECURSIVE LStrip(_)
LStrip(s) == IF s # <<>> /\ Head(s) \in SpaceChars THEN LStrip(Tail(s)) ELSE s
RECURSIVE RStrip(_)
RStrip(s) ==
    IF s # <<>> /\ s[Len(s)] \in SpaceChars THEN RStrip(SubSeq(s, 1, Len(s) - 1)) ELSE s
Strip(s) == RStrip(LStrip(s))

DigitValue(c) == (CHOOSE i \in 1..10 : Digits[i] = c) - 1
\* int(a) for a string of decimal digits
RECURSIVE ParseInt(_)
ParseInt(a) ==
    IF a = <<>> THEN 0
    ELSE ParseInt(SubSeq(a, 1, Len(a) - 1)) * 10 + DigitValue(a[Len(a)])
\* str(n) for an integer n >= 0
RECURSIVE Str(_)
Str(n) == IF n < 10 THEN <<Digits[n + 1]>> ELSE Str(n \div 10) \o <<Digits[(n % 10) + 1]>>

(***************************************************************************)
(* MySQLDialect.moretableinfo: the storage engine and the foreign keys of  *)
(* a table, read from the text SHOW CREATE TABLE returns.                  *)
(***************************************************************************)
\* r'\)[^\)]*\Z'
LastParenPat == <<Lit(")"), Rep({")"}, TRUE, 0, -1, FALSE), EndOfString>>

\* r'\b(?:TYPE|ENGINE)=(?P<ttype>.+)\b' under re.I, one pattern per alternative
TypePat ==
    <<WordBoundaryItem,
      LitsIgnoreCase(<<<<"T","t">>, <<"Y","y">>, <<"P","p">>, <<"E","e">>>>),
      Lit("="), DotPlus, WordBoundaryItem>>
EnginePat ==
    <<WordBoundaryItem,
      LitsIgnoreCase(<<<<"E","e">>, <<"N","n">>, <<"G","g">>, <<"I","i">>,
                       <<"N","n">>, <<"E","e">>>>),
      Lit("="), DotPlus, WordBoundaryItem>>
\* the item of either alternative that is the group ttype
TtypeGroup == Len(TypePat) - 1

\* fkpat, with Q for the optional identifier quote (the backquote followed by ?):
\*   r'FOREIGN KEY\s*\(Q(?P<name>.+?)Q\)'
\*   r'\s*REFERENCES\s*Q(?P<reftable>.+?)Q'
\*   r'\s*\(Q(?P<refcol>.+?)Q\)'
FkHead ==
    <<Lits(<<"F","O","R","E","I","G","N"," ","K","E","Y">>),
      Star(SpaceChars), Lit("("), Opt(Backtick)>>
FkMid ==
    <<Opt(Backtick), Lit(")"), Star(SpaceChars),
      Lits(<<"R","E","F","E","R","E","N","C","E","S">>),
      Star(SpaceChars), Opt(Backtick)>>
FkTail == <<Opt(Backtick), Star(SpaceChars), Lit("("), Opt(Backtick)>>
fkpat ==
    FkHead \o <<DotPlusLazy>> \o FkMid \o <<DotPlusLazy>> \o FkTail
    \o <<DotPlusLazy, Opt(Backtick), Lit(")")>>
NameGroup == Len(FkHead) + 1
ReftableGroup == NameGroup + Len(FkMid) + 1
RefcolGroup == ReftableGroup + Len(FkTail) + 1

\* A Python dict with string keys, as a function; d[k] = v and d.get(k)
EmptyDict == [k \in {} |-> None]
DictSet(d, k, v) == [x \in (DOMAIN d) \cup {k} |-> IF x = k THEN v ELSE d[x]]
DictGet(d, k) == IF k \in DOMAIN d THEN d[k] ELSE None

\* the loop over the matches of fkpat keeping the first entry of a name
RECURSIVE FkScan_KeepFirst(_, _, _)
FkScan_KeepFirst(desc, pos, d) ==
    OrElse(UNION {{FkScan_KeepFirst(desc, MatchEnd(m), d2) :
                     d2 \in {IF Group(desc, m, NameGroup) \in DOMAIN d THEN d
                             ELSE DictSet(d, Group(desc, m, NameGroup),
                                          Group(desc, m, ReftableGroup) \o <<".">>
                                          \o Group(desc, m, RefcolGroup))}} :
                  m \in RxSearch(<<fkpat>>, desc, pos)},
           d)

\* for match in re.finditer(fkpat, desc):
\*     foreignkeyD[name] = reftable + '.' + refcol
\* from position pos of desc on, d being the dict so far and all the matches
\* of fkpat in desc
RECURSIVE FkLoop(_, _, _, _)
FkLoop(desc, all, pos, d) ==
    OrElse(UNION {{FkLoop(desc, all, MatchEnd(m), d2) :
                     d2 \in {DictSet(d, Group(desc, m, NameGroup),
                                     Group(desc, m, ReftableGroup) \o <<".">>
                                     \o Group(desc, m, RefcolGroup))}} :
                  m \in RxNext(all, pos)},
           d)
FkScan(desc, pos, d) ==
    The({FkLoop(desc, all, pos, d) : all \in {RxAll(<<fkpat>>, desc)}})

\* tabletype: '' unless TYPE= / ENGINE= is found in desc[lastparen.start():]
TableType(desc) ==
    OrElse(UNION {{Group(rest, match, TtypeGroup) :
                     match \in RxSearch(<<TypePat, EnginePat>>, rest, 1)} :
                  rest \in {Slice(desc, lastparen.start, Len(desc) + 1) :
                              lastparen \in RxSearch(<<LastParenPat>>, desc, 1)}},
           <<>>)

\* rows: what "SHOW CREATE TABLE <name>" returns, a sequence of rows, each a
\* sequence of fields.  The result is [err, tabletype, foreignkeyD].
moretableinfo(rows) ==
    IF rows = <<>>
    THEN [err |-> "TypeError", tabletype |-> <<>>, foreignkeyD |-> EmptyDict]
    ELSE IF Len(rows[1]) < 2
    THEN [err |-> "IndexError", tabletype |-> <<>>, foreignkeyD |-> EmptyDict]
    ELSE The({[err |-> NoError, tabletype |-> TableType(desc),
               foreignkeyD |-> FkScan(desc, 1, EmptyDict)] :
                desc \in {Strip(rows[1][2])}})

(***************************************************************************)
(* The type descriptors (lines 20-87) and the two registries.              *)
(* A type value is [cls, inst, precision, length]: a class itself          *)
(* (inst = FALSE, what reflecttable keeps when the type has no argument    *)
(* list) or an instance of it with its attributes.                         *)
(***************************************************************************)
\* class statements: the direct base of each class of this module
MSBase ==
    [MSNumeric |-> "Numeric", MSDouble |-> "Numeric", MSFloat |-> "Float",
     MSInteger |-> "Integer", MSSmallInteger |-> "Smallinteger",
     MSDateTime |-> "DateTime", MSDate |-> "Date", MSTime |-> "Time",
     MSText |-> "TEXT", MSString |-> "String", MSChar |-> "CHAR",
     MSBinary |-> "Binary", MSBoolean |-> "Boolean"]

\* sqlalchemy.types: the direct base of each generic type that has one
SqlTypesBase ==
    [Smallinteger |-> "Integer", Float |-> "Numeric",
     TEXT |-> "String", CHAR |-> "String"]

\* the twelve generic types of sqlalchemy.types
AbstractTypes ==
    {"Integer", "Smallinteger", "Numeric", "Float", "DateTime", "Date", "Time",
     "String", "Binary", "Boolean", "TEXT", "CHAR"}

\* issubclass(cls, base)
RECURSIVE IsSubclass(_, _)
IsSubclass(cls, base) ==
    IF cls = base THEN TRUE
    ELSE IF cls \in DOMAIN MSBase THEN IsSubclass(MSBase[cls], base)
    ELSE IF cls \in DOMAIN SqlTypesBase THEN IsSubclass(SqlTypesBase[cls], base)
    ELSE FALSE

Class(cls) == [cls |-> cls, inst |-> FALSE, precision |-> NoInt, length |-> NoInt]
Instance(cls, precision, length) ==
    [cls |-> cls, inst |-> TRUE, precision |-> precision, length |-> length]
\* isinstance(type, base): false of a class that was never instantiated
IsInstance(type, base) == type.inst /\ IsSubclass(type.cls, base)

colspecs ==
    [Integer |-> "MSInteger", Smallinteger |-> "MSSmallInteger",
     Numeric |-> "MSNumeric", Float |-> "MSFloat", DateTime |-> "MSDateTime",
     Date |-> "MSDate", Time |-> "MSTime", String |-> "MSString",
     Binary |-> "MSBinary", Boolean |-> "MSBoolean", TEXT |-> "MSText",
     CHAR |-> "MSChar"]

\* ischema_names without its entry for 'float'
ischema_names_NoFloat ==
    (<<"i","n","t">> :> "MSInteger")
    @@ (<<"s","m","a","l","l","i","n","t">> :> "MSSmallInteger")
    @@ (<<"t","i","n","y","i","n","t">> :> "MSSmallInteger")
    @@ (<<"v","a","r","c","h","a","r">> :> "MSString")
    @@ (<<"c","h","a","r">> :> "MSChar")
    @@ (<<"t","e","x","t">> :> "MSText")
    @@ (<<"d","e","c","i","m","a","l">> :> "MSNumeric")
    @@ (<<"d","o","u","b","l","e">> :> "MSDouble")
    @@ (<<"t","i","m","e","s","t","a","m","p">> :> "MSDateTime")
    @@ (<<"d","a","t","e","t","i","m","e">> :> "MSDateTime")
    @@ (<<"d","a","t","e">> :> "MSDate")
    @@ (<<"t","i","m","e">> :> "MSTime")
    @@ (<<"b","i","n","a","r","y">> :> "MSBinary")
    @@ (<<"b","l","o","b">> :> "MSBinary")

\* ischema_names, keyed by the keyword as Python holds it (a string)
ischema_names ==
    (<<"i","n","t">> :> "MSInteger")
    @@ (<<"s","m","a","l","l","i","n","t">> :> "MSSmallInteger")
    @@ (<<"t","i","n","y","i","n","t">> :> "MSSmallInteger")
    @@ (<<"v","a","r","c","h","a","r">> :> "MSString")
    @@ (<<"c","h","a","r">> :> "MSChar")
    @@ (<<"t","e","x","t">> :> "MSText")
    @@ (<<"d","e","c","i","m","a","l">> :> "MSNumeric")
    @@ (<<"f","l","o","a","t">> :> "MSFloat")
    @@ (<<"d","o","u","b","l","e">> :> "MSDouble")
    @@ (<<"t","i","m","e","s","t","a","m","p">> :> "MSDateTime")
    @@ (<<"d","a","t","e","t","i","m","e">> :> "MSDateTime")
    @@ (<<"d","a","t","e">> :> "MSDate")
    @@ (<<"t","i","m","e">> :> "MSTime")
    @@ (<<"b","i","n","a","r","y">> :> "MSBinary")
    @@ (<<"b","l","o","b">> :> "MSBinary")

\* ischema_names.get(coltype, MSString)
SchemaNameGet(coltype) ==
    IF coltype \in DOMAIN ischema_names THEN ischema_names[coltype] ELSE "MSString"

\* MSDouble.__init__ without its check of the two arguments
MSDouble_init_Unchecked(precision, length) ==
    [err |-> NoError, type |-> Instance("MSDouble", precision, length)]

\* MSDouble.__init__(precision, length): [err, type]
MSDouble_init(precision, length) ==
    IF (precision = NoInt /\ length # NoInt) \/ (precision # NoInt /\ length = NoInt)
    THEN [err |-> "ArgumentError", type |-> Class("MSDouble")]
    ELSE [err |-> NoError, type |-> Instance("MSDouble", precision, length)]

\* MSFloat.__init__(precision)
MSFloat_init(precision) ==
    [err |-> NoError, type |-> Instance("MSFloat", precision, NoInt)]

\* sqlalchemy.types: Numeric.__init__(precision = 10, length = 2)
Numeric_init(cls, args) ==
    [err |-> NoError,
     type |-> Instance(cls, IF Len(args) >= 1 THEN SomeInt(args[1]) ELSE SomeInt(10),
                            IF Len(args) >= 2 THEN SomeInt(args[2]) ELSE SomeInt(2))]

\* sqlalchemy.types: String.__init__(length = None), Binary.__init__(length = None)
Length_init(cls, args) ==
    [err |-> NoError,
     type |-> Instance(cls, NoInt, IF Len(args) >= 1 THEN SomeInt(args[1]) ELSE NoInt)]

\* how many positional arguments each constructor takes at most (-1: any number,
\* TypeEngine.__init__(self, *args, **params))
MaxArgs ==
    [MSNumeric |-> 2, MSDouble |-> 2, MSFloat |-> 1, MSInteger |-> -1,
     MSSmallInteger |-> -1, MSDateTime |-> -1, MSDate |-> -1, MSTime |-> -1,
     MSText |-> 1, MSString |-> 1, MSChar |-> 1, MSBinary |-> 1, MSBoolean |-> -1]

\* cls(*args) for a sequence of integers args
Construct(cls, args) ==
    IF MaxArgs[cls] # -1 /\ Len(args) > MaxArgs[cls]
    THEN [err |-> "TypeError", type |-> Class(cls)]
    ELSE CASE cls = "MSDouble" ->
                MSDouble_init(IF Len(args) >= 1 THEN SomeInt(args[1]) ELSE NoInt,
                              IF Len(args) >= 2 THEN SomeInt(args[2]) ELSE NoInt)
           [] cls = "MSFloat" ->
                MSFloat_init(IF Len(args) >= 1 THEN SomeInt(args[1]) ELSE NoInt)
           [] cls = "MSNumeric" -> Numeric_init(cls, args)
           [] cls \in {"MSText", "MSString", "MSChar", "MSBinary"} -> Length_init(cls, args)
           [] OTHER -> [err |-> NoError, type |-> Instance(cls, NoInt, NoInt)]

\* MSDouble.get_col_spec
MSDouble_get_col_spec(type) ==
    IF type.precision # NoInt /\ type.length # NoInt
    THEN <<"D","O","U","B","L","E","(">> \o Str(type.precision[1]) \o <<",", " ">>
         \o Str(type.length[1]) \o <<")">>
    ELSE <<"D","O","U","B","L","E">>

(***************************************************************************)
(* MySQLDialect.reflecttable: the columns of a table, read from the rows   *)
(* "describe <name>" returns.                                              *)
(***************************************************************************)
\* r'(\w+)(\(.*?\))?': the second group present, then absent
TypePatArgs == <<Rep(WordChars, FALSE, 1, -1, FALSE), Lit("("),
                 Rep({"\n"}, TRUE, 0, -1, TRUE), Lit(")")>>
TypePatBare == <<Rep(WordChars, FALSE, 1, -1, FALSE)>>

\* re.findall(r'(\d+)', args), each hit through int(), from position pos on
RECURSIVE FindInts(_, _)
FindInts(args, pos) ==
    OrElse({<<ParseInt(Group(args, m, 1))>> \o FindInts(args, MatchEnd(m)) :
              m \in RxSearch(<<<<Rep(DigitChars, FALSE, 1, -1, FALSE)>>>>, args, pos)},
           <<>>)

\* lines 196-205: the type of a column from its type string: [err, type]
ColumnType(type) ==
    OrElse({IF Len(match.ends) = 1
            THEN [err |-> NoError, type |-> Class(SchemaNameGet(Group(type, match, 1)))]
            ELSE Construct(SchemaNameGet(Group(type, match, 1)),
                           FindInts(Slice(type, match.ends[1], match.ends[4]), 1)) :
              match \in RxAt(<<TypePatArgs, TypePatBare>>, type, 1)},
           [err |-> "AttributeError", type |-> Class("MSString")])

\* schema.Column(name, coltype, *arglist, primary_key =, nullable =, default =)
Column(name, type, fkey, primary_key, nullable, default) ==
    [name |-> name, type |-> type, foreign_key |-> fkey,
     primary_key |-> primary_key, nullable |-> nullable, default |-> default]

\* table.append_item(column)
append_item(t, column) == [t EXCEPT !.columns = Append(@, column)]

YES == <<"Y","E","S">>
PRI == <<"P","R","I">>

\* one turn of the while loop of lines 189-216, for the row fetched: [err, table]
ReflectRow(t, foreignkeyD, row) ==
    IF Len(row) < 5 THEN [err |-> "IndexError", table |-> t]
    ELSE The({IF coltype.err # NoError THEN [err |-> coltype.err, table |-> t]
              ELSE [err |-> NoError,
                    table |-> append_item(t,
                        Column(row[1], coltype.type, DictGet(foreignkeyD, row[1]),
                               row[4] = PRI, row[3] = YES, row[5]))] :
                coltype \in {ColumnType(row[2])}})

\* the while loop from row k of rows on: [err, table]
RECURSIVE ReflectRows(_, _, _, _)
ReflectRows(t, foreignkeyD, rows, k) ==
    IF k > Len(rows) THEN [err |-> NoError, table |-> t]
    ELSE The({IF r.err # NoError THEN r
              ELSE ReflectRows(r.table, foreignkeyD, rows, k + 1) :
                r \in {ReflectRow(t, foreignkeyD, rows[k])}})

\* lines 186-216 of reflecttable, info being what moretableinfo returned at
\* line 185: [err, table]
ReflectAfter(t, info, rows) ==
    IF info.err # NoError THEN [err |-> info.err, table |-> t]
    ELSE ReflectRows([t EXCEPT !.kwargs = DictSet(@, "mysql_engine", info.tabletype)],
                     info.foreignkeyD, rows, 1)

\* reflecttable(connection, table): show is what SHOW CREATE TABLE returns and
\* rows what DESCRIBE returns, both for table.name.  [err, table]
reflecttable(t, show, rows) ==
    The({ReflectAfter(t, info, rows) : info \in {moretableinfo(show)}})

(***************************************************************************)
(* MySQLSchemaGenerator.post_create_table                                  *)
(***************************************************************************)
post_create_table(t) ==
    LET mysql_engine == DictGet(t.kwargs, "mysql_engine")
    IN  IF mysql_engine # None
        THEN <<" ","T","Y","P","E","=">> \o mysql_engine
        ELSE <<>>

(***************************************************************************)
(* MySQLDialect.get_default_schema_name                                    *)
(***************************************************************************)
\* the names bound in the module's namespace: its imports (lines 7-18), its
\* classes and functions, colspecs, ischema_names and dialect
ModuleNames ==
    {"sys", "StringIO", "string", "types", "re", "datetime", "sql", "engine",
     "schema", "ansisql", "default", "sqltypes", "ischema", "exceptions", "mysql",
     "colspecs", "ischema_names", "descriptor", "dialect", "MySQLExecutionContext",
     "MySQLDialect", "MySQLCompiler", "MySQLSchemaGenerator", "MySQLSchemaDropper"}
    \cup DOMAIN MSBase

\* text("select database()", self).scalar() against a server that answers
\* with the name of its database, or fails: [err, value, sent]
SelectDatabase(server) ==
    IF "text" \notin ModuleNames
    THEN [err |-> "NameError", value |-> None, sent |-> 0]
    ELSE IF server.up
    THEN [err |-> NoError, value |-> server.database, sent |-> 1]
    ELSE [err |-> "OperationalError", value |-> None, sent |-> 1]

\* get_default_schema_name(self): [err, value, dialect, sent]
get_default_schema_name(d, server) ==
    IF "_default_schema_name" \notin DOMAIN d
    THEN LET r == SelectDatabase(server)
         IN  IF r.err # NoError
             THEN [err |-> r.err, value |-> None, dialect |-> d, sent |-> r.sent]
             ELSE [err |-> NoError, value |-> r.value, sent |-> r.sent,
                   dialect |-> DictSet(d, "_default_schema_name", r.value)]
    ELSE [err |-> NoError, value |-> d["_default_schema_name"], dialect |-> d,
          sent |-> 0]

(***************************************************************************)
(* MSTime.convert_result_value                                             *)
(***************************************************************************)
\* datetime.time(hour, minute, second): ValueError outside the ranges
datetime_time(hour, minute, second) ==
    IF hour \in 0..23 /\ minute \in 0..59 /\ second \in 0..59
    THEN [err |-> NoError, hour |-> hour, minute |-> minute, second |-> second]
    ELSE [err |-> "ValueError", hour |-> hour, minute |-> minute, second |-> second]

\* convert_result_value taking the minutes without the remainder by 60
MSTime_convert_result_value_TotalMinutes(value) ==
    IF value # NoInt
    THEN LET seconds == value[1]
         IN  datetime_time((seconds \div 60) \div 60, seconds \div 60,
                           seconds - ((seconds \div 60) * 60))
    ELSE [err |-> NoError, hour |-> NoInt, minute |-> NoInt, second |-> NoInt]

\* convert_result_value(value, dialect): value is None (NoInt) or a timedelta,
\* given by its seconds attribute; / is Python 2's integer division
MSTime_convert_result_value(value) ==
    IF value # NoInt
    THEN LET seconds == value[1]
         IN  datetime_time((seconds \div 60) \div 60, (seconds \div 60) % 60,
                           seconds - ((seconds \div 60) * 60))
    ELSE [err |-> NoError, hour |-> NoInt, minute |-> NoInt, second |-> NoInt]

(***************************************************************************)
(* MySQLCompiler.limit_clause                                              *)
(***************************************************************************)
\* limit_clause emitting the sentinel for every offset, with a limit or without
limit_clause_SentinelAlways(limit, offset) ==
    LET text1 == IF limit # NoInt
                 THEN <<" ", "\n", " ", "L","I","M","I","T"," ">> \o Str(limit[1])
                 ELSE <<>>
    IN  IF offset # NoInt
        THEN text1 \o <<" ", "\n", " ", "L","I","M","I","T"," ",
                        "1","8","4","4","6","7","4","4","0","7",
                        "3","7","0","9","5","5","1","6","1","5">>
             \o <<" ","O","F","F","S","E","T"," ">> \o Str(offset[1])
        ELSE text1

\* limit and offset are select.limit and select.offset, None or an integer
limit_clause(limit, offset) ==
    LET text1 == IF limit # NoInt
                 THEN <<" ", "\n", " ", "L","I","M","I","T"," ">> \o Str(limit[1])
                 ELSE <<>>
        text2 == IF offset # NoInt /\ limit = NoInt
                 THEN text1 \o <<" ", "\n", " ", "L","I","M","I","T"," ",
                                 "1","8","4","4","6","7","4","4","0","7",
                                 "3","7","0","9","5","5","1","6","1","5">>
                 ELSE text1
    IN  IF offset # NoInt
        THEN text2 \o <<" ","O","F","F","S","E","T"," ">> \o Str(offset[1])
        ELSE text2

(***************************************************************************)
(* get_col_spec of each type (lines 20-87) and                             *)
(* MySQLSchemaGenerator.get_column_specification                           *)
(***************************************************************************)
\* '%s' % v for an attribute that is None or an integer
Fmt(v) == IF v = NoInt THEN <<"N","o","n","e">> ELSE Str(v[1])

get_col_spec(type) ==
    CASE type.cls = "MSNumeric" ->
            <<"N","U","M","E","R","I","C","(">> \o Fmt(type.precision) \o <<",", " ">>
            \o Fmt(type.length) \o <<")">>
      [] type.cls = "MSDouble" -> MSDouble_get_col_spec(type)
      [] type.cls = "MSFloat" ->
            IF type.precision # NoInt
            THEN <<"F","L","O","A","T","(">> \o Fmt(type.precision) \o <<")">>
            ELSE <<"F","L","O","A","T">>
      [] type.cls = "MSInteger" -> <<"I","N","T","E","G","E","R">>
      [] type.cls = "MSSmallInteger" -> <<"S","M","A","L","L","I","N","T">>
      [] type.cls = "MSDateTime" -> <<"D","A","T","E","T","I","M","E">>
      [] type.cls = "MSDate" -> <<"D","A","T","E">>
      [] type.cls = "MSTime" -> <<"T","I","M","E">>
      [] type.cls = "MSText" -> <<"T","E","X","T">>
      [] type.cls = "MSString" ->
            <<"V","A","R","C","H","A","R","(">> \o Fmt(type.length) \o <<")">>
      [] type.cls = "MSChar" -> <<"C","H","A","R","(">> \o Fmt(type.length) \o <<")">>
      [] type.cls = "MSBinary" ->
            IF type.length # NoInt /\ type.length[1] <= 255
            THEN <<"B","I","N","A","R","Y","(">> \o Str(type.length[1]) \o <<")">>
            ELSE <<"B","L","O","B">>
      [] type.cls = "MSBoolean" -> <<"B","O","O","L","E","A","N">>

\* sqltypes.adapt_type(typeobj, colspecs), for the class of typeobj: the
\* class itself if it is one of this module's, else the entry of colspecs
\* for it
RECURSIVE adapt_class(_)
adapt_class(cls) ==
    IF cls \in DOMAIN MSBase THEN cls
    ELSE IF cls \in DOMAIN colspecs THEN colspecs[cls]
    ELSE adapt_class(SqlTypesBase[cls])

\* MySQLDialect.type_descriptor(typeobj) / column.type.engine_impl(engine): the
\* type of this module that stands for typeobj, with typeobj's attributes
type_descriptor(typeobj) == [typeobj EXCEPT !.cls = adapt_class(typeobj.cls)]

\* schema.ForeignKey('table.column'): foreign_key.column.table.name and
\* foreign_key.column.name
ForeignKeyTable(fkey) ==
    Slice(fkey, 1, Min({i \in 1..Len(fkey) : fkey[i] = "."}))
ForeignKeyColumn(fkey) ==
    Slice(fkey, Min({i \in 1..Len(fkey) : fkey[i] = "."}) + 1, Len(fkey) + 1)

\* get_column_specification without the test of column.foreign_key before
\* AUTO_INCREMENT
get_column_specification_NoForeignKeyTest(column, override_pk, first_pk) ==
    LET spec0 == column.name \o <<" ">> \o get_col_spec(type_descriptor(column.type))
        spec1 == IF column.default # None
                 THEN spec0 \o <<" ","D","E","F","A","U","L","T"," ">> \o column.default
                 ELSE spec0
        spec2 == IF ~column.nullable
                 THEN spec1 \o <<" ","N","O","T"," ","N","U","L","L">>
                 ELSE spec1
        spec3 == IF column.primary_key /\ ~override_pk
                 THEN spec2 \o <<" ","P","R","I","M","A","R","Y"," ","K","E","Y">>
                 ELSE spec2
        spec4 == IF column.primary_key /\ first_pk /\ IsInstance(column.type, "Integer")
                 THEN spec3 \o <<" ","A","U","T","O","_","I","N","C","R","E","M","E","N","T">>
                 ELSE spec3
    IN  IF column.foreign_key # None
        THEN spec4 \o <<",", " ", "F","O","R","E","I","G","N"," ","K","E","Y"," ","(">>
             \o column.name \o <<")", " ", "R","E","F","E","R","E","N","C","E","S"," ">>
             \o ForeignKeyTable(column.foreign_key) \o <<"(">>
             \o ForeignKeyColumn(column.foreign_key) \o <<")">>
        ELSE spec4

\* get_column_specification(column, override_pk, first_pk); column.default
\* stands for what get_column_default_string(column) returns
get_column_specification(column, override_pk, first_pk) ==
    LET spec0 == column.name \o <<" ">> \o get_col_spec(type_descriptor(column.type))
        spec1 == IF column.default # None
                 THEN spec0 \o <<" ","D","E","F","A","U","L","T"," ">> \o column.default
                 ELSE spec0
        spec2 == IF ~column.nullable
                 THEN spec1 \o <<" ","N","O","T"," ","N","U","L","L">>
                 ELSE spec1
        spec3 == IF column.primary_key /\ ~override_pk
                 THEN spec2 \o <<" ","P","R","I","M","A","R","Y"," ","K","E","Y">>
                 ELSE spec2
        spec4 == IF column.primary_key /\ column.foreign_key = None /\ first_pk
                    /\ IsInstance(column.type, "Integer")
                 THEN spec3 \o <<" ","A","U","T","O","_","I","N","C","R","E","M","E","N","T">>
                 ELSE spec3
    IN  IF column.foreign_key # None
        THEN spec4 \o <<",", " ", "F","O","R","E","I","G","N"," ","K","E","Y"," ","(">>
             \o column.name \o <<")", " ", "R","E","F","E","R","E","N","C","E","S"," ">>
             \o ForeignKeyTable(column.foreign_key) \o <<"(">>
             \o ForeignKeyColumn(column.foreign_key) \o <<")">>
        ELSE spec4

(***************************************************************************)
(* The inputs: what the server returns for SHOW CREATE TABLE and DESCRIBE. *)
(***************************************************************************)
MaxClauses == 2
MaxRows == 2
MaxQueries == 3

\* the sequences over S of length at most n
RECURSIVE SeqsUpTo(_, _)
SeqsUpTo(S, n) ==
    IF n = 0 THEN {<<>>}
    ELSE LET shorter == SeqsUpTo(S, n - 1)
         IN  shorter \cup {Append(q, x) : q \in shorter, x \in S}

Quote(quoted, s) == IF quoted THEN <<Backtick>> \o s \o <<Backtick>> ELSE s

\* one FOREIGN KEY ... REFERENCES ... clause of a table definition, as the
\* docstring of moretableinfo shows it, c.gap being the white space written
\* after FOREIGN KEY (the \s* of fkpat)
ClauseText(c, quoted) ==
    <<",", "\n", " ">>
    \o <<"F","O","R","E","I","G","N"," ","K","E","Y">> \o c.gap \o <<"(">>
    \o Quote(quoted, c.name) \o <<")", " ">>
    \o <<"R","E","F","E","R","E","N","C","E","S"," ">>
    \o Quote(quoted, c.reftable) \o <<" ", "(">> \o Quote(quoted, c.refcol) \o <<")">>

RECURSIVE ClausesText(_, _)
ClausesText(cs, quoted) ==
    IF cs = <<>> THEN <<>>
    ELSE ClauseText(Head(cs), quoted) \o ClausesText(Tail(cs), quoted)

\* the text SHOW CREATE TABLE child returns for a table with the foreign key
\* clauses cs, whose definition ends with the text trailer
DumpText(cs, quoted, trailer) ==
    <<"C","R","E","A","T","E"," ","T","A","B","L","E"," ">>
    \o Quote(quoted, <<"c","h","i","l","d">>) \o <<" ", "(", "\n", " ">>
    \o Quote(quoted, <<"i","d">>) \o <<" ","i","n","t","(","1","1",")">>
    \o ClausesText(cs, quoted) \o <<"\n", ")">> \o trailer

ClausePool ==
    {[name |-> <<"p","i","d">>, reftable |-> <<"p","a","r","e","n","t">>,
      refcol |-> <<"i","d">>, gap |-> <<" ">>],
     [name |-> <<"p","i","d">>, reftable |-> <<"o","w","n","e","r">>,
      refcol |-> <<"u","i","d">>, gap |-> <<>>],
     [name |-> <<"o","i","d">>, reftable |-> <<"p","a","r","e","n","t">>,
      refcol |-> <<"i","d">>, gap |-> <<VerticalTab>>]}

\* what may follow the closing parenthesis: the text, and the storage engine
\* it names ("" when it names none)
Trailers ==
    {[text |-> <<>>, engine |-> <<>>],
     [text |-> <<" ","T","Y","P","E","=","I","n","n","o","D","B">>,
      engine |-> <<"I","n","n","o","D","B">>],
     [text |-> <<" ","E","N","G","I","N","E","=","M","y","I","S","A","M","\n">>,
      engine |-> <<"M","y","I","S","A","M">>],
     [text |-> <<" ","E","N","G","I","N","E","=","I","n","n","o","D","B"," ",
                 "D","E","F","A","U","L","T"," ","C","H","A","R","S","E","T","=",
                 "l","a","t","i","n","1">>,
      engine |-> <<"I","n","n","o","D","B">>]}

\* the result set of SHOW CREATE TABLE: one row (table name, definition)
ShowRow(text) == <<<<<<"c","h","i","l","d">>, text>>>>

\* the rows DESCRIBE may return: (Field, Type, Null, Key, Default)
RowPool ==
    {<<<<"i","d">>, <<"i","n","t","(","1","1",")">>, <<"N","O">>, PRI, None>>,
     <<<<"p","i","d">>, <<"i","n","t","(","1","1",")">>, YES, <<>>, None>>,
     <<<<"n","a","m","e">>, <<"v","a","r","c","h","a","r","(","3","0",")">>, YES, <<>>,
       <<"x">>>>,
     <<<<"p","r","i","c","e">>, <<"d","o","u","b","l","e","(","1","0",",","2",")">>,
       YES, <<>>, None>>,
     <<<<"b","i","g">>, <<"b","i","g","i","n","t","(","2","0",")">>, <<"N","O">>, <<>>,
       <<"0">>>>,
     <<<<"g","e","o">>, <<"g","e","o","m","e","t","r","y">>, YES, <<>>, None>>,
     <<<<"k","i","n","d">>, <<"e","n","u","m","(","'","1","'",",","'","2","'",")">>,
       YES, <<>>, None>>,
     <<<<"c","u","t">>, <<"i","n","t","(","1","1",")">>>>}

\* the row sequences DESCRIBE may return: no column name twice
RowSeqs ==
    {rs \in SeqsUpTo(RowPool, MaxRows) :
        \A i, j \in 1..Len(rs) : i # j => rs[i][1] # rs[j][1]}

\* the SHOW CREATE TABLE results reflecttable is run on, with what built them
ShowInputs ==
    {[show |-> <<>>, made |-> FALSE, trailer |-> <<>>, engine |-> <<>>],
     [show |-> <<<<<<"c","h","i","l","d">>>>>>, made |-> FALSE, trailer |-> <<>>,
      engine |-> <<>>]}
    \cup {[show |-> ShowRow(DumpText(cs, TRUE, tr.text)), made |-> TRUE,
           trailer |-> tr.text, engine |-> tr.engine] :
            cs \in {<<>>, <<[name |-> <<"p","i","d">>,
                           reftable |-> <<"p","a","r","e","n","t">>,
                           refcol |-> <<"i","d">>, gap |-> <<" ">>]>>},
            tr \in Trailers}

\* the servers get_default_schema_name may talk to
Servers == {[up |-> TRUE, database |-> <<"t","e","s","t">>],
            [up |-> TRUE, database |-> <<"p","r","o","d">>],
            [up |-> FALSE, database |-> <<>>]}

(***************************************************************************)
(* The dialect as a state machine: one table being reflected and rendered. *)
(***************************************************************************)
NoCall == [op |-> "none"]

\* Table('child', metadata): new, with an engine configured, or with a column
NewTables ==
    {[columns |-> <<>>, kwargs |-> EmptyDict],
     [columns |-> <<>>, kwargs |-> DictSet(EmptyDict, "mysql_engine",
                                           <<"M","y","I","S","A","M">>)],
     [columns |-> <<Column(<<"o","l","d">>, Instance("MSInteger", NoInt, NoInt), None,
                           FALSE, TRUE, None)>>,
      kwargs |-> EmptyDict]}

Init ==
    /\ table \in NewTables
    /\ dialect = EmptyDict
    /\ queries = 0
    /\ call = NoCall

\* dialect.reflecttable(connection, table), once per table: the call
\* reflecttable(table, in.show, rows), its SHOW CREATE TABLE parsed once for
\* all the row sequences
Reflecttable ==
    /\ call.op = "none"
    /\ \E in \in ShowInputs :
          \E info \in {moretableinfo(in.show)} :
             \E rows \in RowSeqs :
                \E r \in {ReflectAfter(table, info, rows)} :
                    /\ table' = r.table
                    /\ call' = [op |-> "reflecttable", err |-> r.err, input |-> in,
                                rows |-> rows, before |-> table]
    /\ UNCHANGED <<dialect, queries>>

\* MySQLSchemaGenerator.post_create_table(table), for the CREATE TABLE of the table
PostCreateTable ==
    /\ call.op # "post_create_table"
    /\ call' = [op |-> "post_create_table", text |-> post_create_table(table),
                prev |-> call]
    /\ UNCHANGED <<table, dialect, queries>>

\* dialect.get_default_schema_name()
GetDefaultSchemaName ==
    /\ queries < MaxQueries
    /\ call.op # "post_create_table"
    /\ \E server \in Servers :
          LET r == get_default_schema_name(dialect, server)
          IN  /\ dialect' = r.dialect
              /\ queries' = queries + r.sent
              /\ call' = [op |-> "get_default_schema_name", err |-> r.err,
                          value |-> r.value, server |-> server, sent |-> r.sent,
                          before |-> dialect]
    /\ UNCHANGED table

Next == Reflecttable \/ PostCreateTable \/ GetDefaultSchemaName

Spec == Init /\ [][Next]_vars

(***************************************************************************)
(* The rendering and conversion functions, each as a machine that takes    *)
(* one call on an input drawn from a bounded set; the table and the        *)
(* dialect are not touched.                                                *)
(***************************************************************************)
MaxLimit == 11
MaxPrecision == 11
DaySeconds == 24 * 60 * 60

\* None and the integers 0..n
OptInts(n) == {NoInt} \cup {SomeInt(i) : i \in 0..n}

Idle ==
    /\ table = [columns |-> <<>>, kwargs |-> EmptyDict]
    /\ dialect = EmptyDict
    /\ queries = 0
    /\ call = NoCall

\* compiler.limit_clause(select)
LimitClause ==
    /\ call.op = "none"
    /\ \E limit \in OptInts(MaxLimit), offset \in OptInts(MaxLimit) :
          call' = [op |-> "limit_clause", limit |-> limit, offset |-> offset,
                   text |-> limit_clause(limit, offset)]
    /\ UNCHANGED <<table, dialect, queries>>

SpecLimit == Idle /\ [][LimitClause]_vars

\* MSTime().convert_result_value(value, dialect): value is None or a
\* timedelta, whose seconds attribute is in 0..86399
ConvertResultValue ==
    /\ call.op = "none"
    /\ \E value \in {NoInt} \cup {SomeInt(sec) : sec \in 0..(DaySeconds - 1)} :
          call' = [op |-> "convert_result_value", value |-> value,
                   result |-> MSTime_convert_result_value(value)]
    /\ UNCHANGED <<table, dialect, queries>>

SpecTime == Idle /\ [][ConvertResultValue]_vars

\* the columns get_column_specification is asked to render
ColumnTypes ==
    {Instance("Integer", NoInt, NoInt), Instance("Smallinteger", NoInt, NoInt),
     Instance("MSInteger", NoInt, NoInt), Instance("String", NoInt, SomeInt(30)),
     Instance("Numeric", SomeInt(10), SomeInt(2)), Instance("Boolean", NoInt, NoInt),
     Instance("DateTime", NoInt, NoInt), Instance("MSDouble", NoInt, NoInt)}
Columns ==
    {Column(name, type, fkey, pk, nullable, default) :
        name \in {<<"i","d">>, <<"A","U","T","O">>}, type \in ColumnTypes,
        fkey \in {None, <<"p","a","r","e","n","t",".","i","d">>},
        pk \in BOOLEAN, nullable \in BOOLEAN, default \in {None, <<"0">>}}

\* schemagenerator.get_column_specification(column, override_pk, first_pk)
GetColumnSpecification ==
    /\ call.op = "none"
    /\ \E column \in Columns, override_pk \in BOOLEAN, first_pk \in BOOLEAN :
          call' = [op |-> "get_column_specification", column |-> column,
                   override_pk |-> override_pk, first_pk |-> first_pk,
                   text |-> get_column_specification(column, override_pk, first_pk)]
    /\ UNCHANGED <<table, dialect, queries>>

SpecColumn == Idle /\ [][GetColumnSpecification]_vars

\* MSDouble(precision, length)
NewDouble ==
    /\ call.op = "none"
    /\ \E precision \in OptInts(MaxPrecision), length \in OptInts(MaxPrecision) :
          \E r \in {MSDouble_init(precision, length)} :
             call' = [op |-> "MSDouble", precision |-> precision, length |-> length,
                      err |-> r.err, type |-> r.type]
    /\ UNCHANGED <<table, dialect, queries>>

\* get_col_spec() of the MSDouble the last call constructed
DoubleColSpec ==
    /\ call.op = "MSDouble"
    /\ call.err = NoError
    /\ call' = [op |-> "get_col_spec", type |-> call.type,
                text |-> MSDouble_get_col_spec(call.type)]
    /\ UNCHANGED <<table, dialect, queries>>

\* dialect.type_descriptor(t()) for a generic type t of sqlalchemy.types
TypeDescriptor ==
    /\ call.op = "none"
    /\ \E t \in AbstractTypes :
          call' = [op |-> "type_descriptor", category |-> t,
                   impl |-> type_descriptor(Instance(t, NoInt, NoInt)).cls]
    /\ UNCHANGED <<table, dialect, queries>>

NextTypes == NewDouble \/ DoubleColSpec \/ TypeDescriptor

SpecTypes == Idle /\ [][NextTypes]_vars

\* dialect.moretableinfo(connection, table) on its own
DumpInputs ==
    {[show |-> ShowRow(DumpText(cs, quoted, tr.text)), clauses |-> cs] :
        cs \in SeqsUpTo(ClausePool, MaxClauses), quoted \in BOOLEAN, tr \in Trailers}

Moretableinfo ==
    /\ call.op = "none"
    /\ \E in \in DumpInputs :
          call' = [op |-> "moretableinfo", input |-> in,
                   result |-> moretableinfo(in.show)]
    /\ UNCHANGED <<table, dialect, queries>>

SpecFk == Idle /\ [][Moretableinfo]_vars

(***************************************************************************)
(* The claims about reflecttable, post_create_table and                    *)
(* get_default_schema_name, checked under Spec.                            *)
(***************************************************************************)
\* text contains the string s
Contains(text, s) == RxSearch(<<<<Lits(s)>>>>, text, 1) # {}

\* the type keyword of a row's type string: its leading run of word characters
Keyword(type) ==
    OrElse({Group(type, m, 1) : m \in RxAt(<<TypePatBare>>, type, 1)}, <<>>)

\* a reflecttable call met malformed introspection data: no SHOW CREATE TABLE
\* row or a short one, or a DESCRIBE row with fewer than 5 fields
Malformed(c) ==
    /\ c.op = "reflecttable"
    /\ c.err # NoError
    /\ \/ ~c.input.made
       \/ c.err = "IndexError" /\ \E k \in 1..Len(c.rows) : Len(c.rows[k]) < 5

\* C1: a reflecttable call that fails on malformed introspection data leaves the
\* table exactly as it was before the call: no column of the rows before the
\* malformed one was appended and kwargs['mysql_engine'] was not set.
C1_FullyMergeOrFullyAbort == Malformed(call) => table = call.before

\* a reflecttable call whose SHOW CREATE TABLE result and DESCRIBE rows are all
\* well formed
WellFormed(c) ==
    /\ c.op = "reflecttable"
    /\ c.input.made
    /\ \A k \in 1..Len(c.rows) : Len(c.rows[k]) = 5

\* C4: in a reflecttable call over well-formed rows, a row whose type keyword is
\* not a key of ischema_names never aborts the parse: the call succeeds, every row
\* has its column appended in order, and the column of each such row has the type
\* MSString.
C4_UnknownKeywordFallsBack ==
    (WellFormed(call) /\ \E k \in 1..Len(call.rows) :
                            Keyword(call.rows[k][2]) \notin DOMAIN ischema_names)
    => /\ call.err = NoError
       /\ Len(table.columns) = Len(call.before.columns) + Len(call.rows)
       /\ \A k \in 1..Len(call.rows) :
             LET column == table.columns[Len(call.before.columns) + k]
             IN  /\ column.name = call.rows[k][1]
                 /\ Keyword(call.rows[k][2]) \notin DOMAIN ischema_names
                      => column.type.cls = "MSString"

\* C8: the default schema name is computed at most once: a call on a dialect
\* with nothing stored runs the query, and if the server answers, returns the
\* name of its database and stores it; if the query fails nothing is stored; a
\* call on a dialect with a stored name returns it and runs no query.
C8_DefaultSchemaNameMemoized ==
    call.op = "get_default_schema_name" =>
        IF "_default_schema_name" \in DOMAIN call.before
        THEN /\ call.err = NoError
             /\ call.value = call.before["_default_schema_name"]
             /\ call.sent = 0
             /\ dialect = call.before
        ELSE /\ IF call.server.up
                THEN /\ call.err = NoError
                     /\ call.sent = 1
                     /\ call.value = call.server.database
                     /\ dialect = DictSet(call.before, "_default_schema_name",
                                          call.server.database)
                ELSE /\ call.err # NoError
                     /\ dialect = call.before

\* C9: post_create_table right after a successful reflecttable renders
\* ' TYPE=v' when the dump has a TYPE=/ENGINE= marker with bareword v after the
\* last closing parenthesis, and the empty string when it has no marker.
C9_EngineRoundTrip ==
    (call.op = "post_create_table" /\ call.prev.op = "reflecttable"
        /\ call.prev.err = NoError)
    => call.text = (IF call.prev.input.engine = <<>> THEN <<>>
                    ELSE <<" ","T","Y","P","E","=">> \o call.prev.input.engine)

(***************************************************************************)
(* The claims about the rendering and conversion functions.                *)
(***************************************************************************)
\* Decimal numbers beyond 32 bits, as sequences of digits, least significant
\* first.
RECURSIVE Limbs(_)
Limbs(n) == IF n < 10 THEN <<n>> ELSE <<n % 10>> \o Limbs(n \div 10)
\* the sum of a[i] * b[k + 1 - i] over the i from i on
RECURSIVE Convolve(_, _, _, _)
Convolve(a, b, k, i) ==
    IF i > Len(a) THEN 0
    ELSE (IF k + 1 - i \in 1..Len(b) THEN a[i] * b[k + 1 - i] ELSE 0)
         + Convolve(a, b, k, i + 1)
\* the digits of the column sums c from column k on, carry coming in
RECURSIVE Carry(_, _, _)
Carry(c, k, carry) ==
    IF k > Len(c) THEN (IF carry = 0 THEN <<>> ELSE Limbs(carry))
    ELSE <<(c[k] + carry) % 10>> \o Carry(c, k + 1, (c[k] + carry) \div 10)
Product(a, b) ==
    The({Carry(c, 1, 0) : c \in {[k \in 1..(Len(a) + Len(b) - 1) |-> Convolve(a, b, k, 1)]}})
RECURSIVE Pred(_)
Pred(d) == IF d[1] > 0 THEN [d EXCEPT ![1] = @ - 1] ELSE <<9>> \o Pred(Tail(d))
TwoTo32 == Product(Limbs(2^16), Limbs(2^16))
TwoTo64 == Product(TwoTo32, TwoTo32)
\* 2^64 - 1 as text
MaxUInt64Text ==
    The({[i \in 1..Len(d) |-> Digits[d[Len(d) + 1 - i] + 1]] : d \in {Pred(TwoTo64)}})

\* the LIMIT/OFFSET text of the claim, after the text lead
LimitText(lead, limit, offset) ==
    CASE limit # NoInt /\ offset = NoInt ->
            lead \o <<"L","I","M","I","T"," ">> \o Str(limit[1])
      [] limit = NoInt /\ offset # NoInt ->
            lead \o <<"L","I","M","I","T"," ">> \o MaxUInt64Text
            \o <<" ","O","F","F","S","E","T"," ">> \o Str(offset[1])
      [] limit # NoInt /\ offset # NoInt ->
            lead \o <<"L","I","M","I","T"," ">> \o Str(limit[1])
            \o <<" ","O","F","F","S","E","T"," ">> \o Str(offset[1])
      [] OTHER -> <<>>

\* C2 (as stated): limit_clause renders 'LIMIT n', 'LIMIT 18446744073709551615
\* OFFSET m', 'LIMIT n OFFSET m' or the empty string, the sentinel being 2^64 - 1
\* and emitted only for an offset without a limit.
C2_LimitClauseExact ==
    call.op = "limit_clause" =>
        /\ call.text = LimitText(<<>>, call.limit, call.offset)
        /\ Contains(call.text, MaxUInt64Text)
              <=> (call.limit = NoInt /\ call.offset # NoInt)

\* C2 (amended): limit_clause renders these texts after a lead of a space, a
\* newline and a space, and the empty string with no lead when neither limit nor
\* offset is present; the sentinel is 2^64 - 1 and is emitted only for an offset
\* without a limit.
C2_LimitClauseAfterLead ==
    call.op = "limit_clause" =>
        /\ call.text = LimitText(<<" ", "\n", " ">>, call.limit, call.offset)
        /\ Contains(call.text, MaxUInt64Text)
              <=> (call.limit = NoInt /\ call.offset # NoInt)

C2_OffsetWithoutLimit ==
    /\ call.op = "limit_clause"
    /\ call.limit = NoInt
    /\ call.offset = SomeInt(5)
    /\ Contains(call.text, MaxUInt64Text)

\* the types of the integer category: sqlalchemy.types.Integer, its subclass
\* Smallinteger and this module's subclasses of the two
IntegerCategory == {"Integer", "Smallinteger", "MSInteger", "MSSmallInteger"}

\* C3: get_column_specification appends AUTO_INCREMENT if and only if the column
\* is a primary key, first_pk is passed, no foreign key is attached and the type
\* is of the integer category, whatever override_pk is; such a column renders
\* PRIMARY KEY too when override_pk is unset, and a column with a foreign key
\* never renders AUTO_INCREMENT.
C3_AutoIncrement ==
    call.op = "get_column_specification" =>
        LET auto == Contains(call.text,
                        <<" ","A","U","T","O","_","I","N","C","R","E","M","E","N","T">>)
            first == /\ call.column.primary_key
                     /\ call.first_pk
                     /\ call.column.foreign_key = None
                     /\ call.column.type.cls \in IntegerCategory
        IN  /\ auto <=> first
            /\ (first /\ ~call.override_pk)
                 => Contains(call.text,
                        <<" ","P","R","I","M","A","R","Y"," ","K","E","Y",
                          " ","A","U","T","O","_","I","N","C","R","E","M","E","N","T">>)
            /\ call.column.foreign_key # None => ~auto

C3_FirstIntegerPrimaryKey ==
    /\ call.op = "get_column_specification"
    /\ call.column.primary_key
    /\ call.first_pk
    /\ ~call.override_pk
    /\ call.column.foreign_key = None
    /\ call.column.type.cls = "Integer"
    /\ Contains(call.text, <<"A","U","T","O","_","I","N","C","R","E","M","E","N","T">>)

\* the mapping the clauses cs stand for, read in text order: the target of the
\* last clause of each local column
LastTargets(cs) ==
    [n \in {cs[i].name : i \in 1..Len(cs)} |->
        LET last == CHOOSE i \in 1..Len(cs) :
                        /\ cs[i].name = n
                        /\ \A j \in (i + 1)..Len(cs) : cs[j].name # n
        IN  cs[last].reftable \o <<".">> \o cs[last].refcol]

\* C5: moretableinfo maps each local column of a FOREIGN KEY ... REFERENCES
\* clause of the dump to 'reftable.refcol' of its last clause; the keys are
\* exactly the local columns of the clauses, and a dump with no clause gives the
\* empty mapping without error.
C5_ForeignKeyMapping ==
    call.op = "moretableinfo" =>
        /\ call.result.err = NoError
        /\ call.result.foreignkeyD = LastTargets(call.input.clauses)
        /\ call.input.clauses = <<>> => call.result.foreignkeyD = EmptyDict

C5_LastMatchWins ==
    /\ call.op = "moretableinfo"
    /\ Len(call.input.clauses) = 2
    /\ call.input.clauses[1].name = call.input.clauses[2].name
    /\ call.input.clauses[1].reftable # call.input.clauses[2].reftable
    /\ call.result.foreignkeyD[call.input.clauses[1].name]
         = call.input.clauses[2].reftable \o <<".">> \o call.input.clauses[2].refcol

\* exactly one of precision and length is given
ExactlyOne(precision, length) == (precision = NoInt) # (length = NoInt)

\* C6: MSDouble with exactly one of precision and length raises the argument
\* error at construction, so that no get_col_spec of it is ever rendered; with
\* both it succeeds and renders 'DOUBLE(precision, length)', with neither it
\* succeeds and renders 'DOUBLE'.
C6_DoubleConstruction ==
    /\ call.op = "MSDouble" =>
          call.err = (IF ExactlyOne(call.precision, call.length)
                      THEN "ArgumentError" ELSE NoError)
    /\ call.op = "get_col_spec" =>
          /\ ~ExactlyOne(call.type.precision, call.type.length)
          /\ call.text = (IF call.type.precision # NoInt
                          THEN <<"D","O","U","B","L","E","(">>
                               \o Str(call.type.precision[1]) \o <<",", " ">>
                               \o Str(call.type.length[1]) \o <<")">>
                          ELSE <<"D","O","U","B","L","E">>)

C6_PrecisionWithoutLength ==
    /\ call.op = "MSDouble"
    /\ call.precision = SomeInt(10)
    /\ call.length = NoInt
    /\ call.err = "ArgumentError"

\* the abstract type categories: integer, small-integer, numeric, floating,
\* date, time, datetime, text, variable-string, fixed-string, binary, boolean
Categories ==
    {"Integer", "Smallinteger", "Numeric", "Float", "Date", "Time", "DateTime",
     "TEXT", "String", "CHAR", "Binary", "Boolean"}

\* the vendor keywords whose row-listing parse gives the descriptor impl
KeywordsOf(impl) ==
    {kw \in DOMAIN ischema_names :
        \E parsed \in {ColumnType(kw)} : parsed.err = NoError /\ parsed.type.cls = impl}

\* colspecs holds one descriptor for each category, no descriptor twice
OnePerCategory ==
    /\ DOMAIN colspecs = Categories
    /\ \A c1, c2 \in Categories : colspecs[c1] = colspecs[c2] => c1 = c2

\* C7 (as stated): every category has exactly one descriptor in colspecs, which
\* type_descriptor returns, and some vendor keyword of ischema_names parses back
\* to that descriptor.
C7_RegistryRoundTrips ==
    /\ OnePerCategory
    /\ call.op = "type_descriptor" =>
          /\ call.impl = colspecs[call.category]
          /\ KeywordsOf(call.impl) # {}

\* C7 (amended): every category has exactly one descriptor in colspecs, which
\* type_descriptor returns; for every category but boolean some vendor keyword
\* of ischema_names parses back to that descriptor, and for boolean none does.
C7_RegistryRoundTripsButBoolean ==
    /\ OnePerCategory
    /\ call.op = "type_descriptor" =>
          /\ call.impl = colspecs[call.category]
          /\ (KeywordsOf(call.impl) = {}) <=> (call.category = "Boolean")

C7_FloatAndBoolean ==
    /\ call.op = "type_descriptor"
    /\ call.category = "Float"
    /\ call.impl = "MSFloat"
    /\ <<"f","l","o","a","t">> \in KeywordsOf(call.impl)
    /\ KeywordsOf(colspecs["Boolean"]) = {}

\* C10: convert_result_value maps None to None, and a duration of s seconds,
\* s in 0..86399, to the time of day h:m:sec with h in 0..23, m in 0..59,
\* sec in 0..59 and h*3600 + m*60 + sec = s.
C10_TimeOfDay ==
    call.op = "convert_result_value" =>
        IF call.value = NoInt
        THEN /\ call.result.err = NoError
             /\ call.result.hour = NoInt
             /\ call.result.minute = NoInt
             /\ call.result.second = NoInt
        ELSE /\ call.result.err = NoError
             /\ call.result.hour \in 0..23
             /\ call.result.minute \in 0..59
             /\ call.result.second \in 0..59
             /\ call.result.hour * 3600 + call.result.minute * 60 + call.result.second
                  = call.value[1]

C10_LastSecondOfDay ==
    /\ call.op = "convert_result_value"
    /\ call.value = SomeInt(DaySeconds - 1)
    /\ call.result.hour = 23
    /\ call.result.minute = 59
    /\ call.result.second = 59

=============================================================================
